---- MODULE Spec2Model ----
(***************************************************************************)
(* FacePay on-chain modules (Move): facepay::registry, facepay::facepay    *)
(* and facepay::enhanced_payment,                                          *)
(* as a state machine over Move global storage.  Every resource type is a  *)
(* function whose DOMAIN is the set of addresses that hold the resource    *)
(* (exists<T>(a) is a \in DOMAIN t).  Every entry function is one action:  *)
(* it either commits all of its writes or aborts and writes nothing.       *)
(***************************************************************************)
EXTENDS Integers, Sequences, FiniteSets, TLC

VARIABLES
    registry_config,    \* RegistryConfig resources, by admin address
    registry_admin_cap, \* registry::AdminCap resources
    user_profile,       \* UserProfile resources, by user address
    system,             \* FacePaySystem resources, by admin address
    admin_cap,          \* facepay::AdminCap resources
    payment_counter,    \* PaymentCounter resources
    payment_tx,         \* PaymentTx resources, by sender address
    balance,            \* CoinStore<AptosCoin> balances
    enhanced_config,    \* EnhancedPaymentConfig resources, by admin address
    now,                \* timestamp::now_seconds()
    tx_count,           \* committed transactions counted against MaxTx
    last                \* the last submitted call and its outcome

vars == <<registry_config, registry_admin_cap, user_profile, system, admin_cap,
          payment_counter, payment_tx, balance, enhanced_config, now, tx_count, last>>

\* Everything but the clock and the bookkeeping of the last call.
chain == <<registry_config, registry_admin_cap, user_profile, system, admin_cap,
           payment_counter, payment_tx, balance, enhanced_config>>

----------------------------------------------------------------------------
\* Bounds of the model.

\* Committed transactions per behaviour.
MaxTx == 4
\* Largest clock value.
MaxTime == 1
\* Committed transactions per behaviour that starts from the deployment.
MaxDeployedTx == 3
\* Committed transactions per behaviour that sets up a second registry and a
\* second facade configuration.
MaxConfigTx == 5
\* Committed transactions per behaviour that follows the Identities under a
\* running clock.
MaxIdentityTx == 2

\* Accounts.  Any of them may register a face, pay, or call an admin function.
Addr == {"a1", "a2", "a3"}
\* The accounts that initialize a registry or a ledger, and the addresses
\* callers pass as registry_admin / system_admin.
Admins == {"a1", "a2"}
\* Face hashes submitted by callers; "" is the empty string.
FaceHashes == {"", "f1", "f2"}
\* Token addresses; APT is @0x1.
APT == "0x1"
Tokens == {APT, "0xB"}
\* Preferences submitted to update_preferences (register_user submits APT, "n1").
NewTokens == {"0xB"}
NewNames == {"n2"}
\* Amounts submitted to the payment functions (octas).
Amounts == {999999, 1000000, 1000333}
\* Minimums submitted to add_supported_token.
MinAmounts == {2000000}
\* Fee rates submitted to update_fee_bps.
FeeRates == {1000, 1001}
\* Slippage limits submitted to pay_by_face_with_swap_enhanced (basis points).
Slippages == {0, 50}
\* Funding of the accounts before the first transaction.
InitialBalance == [a \in Addr |-> IF a = "a3" THEN 1000000 ELSE 2500000]

----------------------------------------------------------------------------
\* Program constants.

MIN_PAYMENT_AMOUNT == 1000000
DEFAULT_FEE_BPS == 30
\* The rate enhanced_payment writes into its events: (amount * 30) / 10000.
ENHANCED_EVENT_FEE_BPS == 30
MAX_FEE_BPS == 1000
BPS_DENOMINATOR == 10000

\* Abort codes: error category and reason, as written in the source.
OK == "OK"
R_USER_ALREADY_EXISTS == "already_exists(registry::E_USER_ALREADY_EXISTS)"
R_INVALID_FACE_HASH == "invalid_argument(registry::E_INVALID_FACE_HASH)"
R_REGISTRY_NOT_INITIALIZED == "not_found(registry::E_REGISTRY_NOT_INITIALIZED)"
R_USER_NOT_FOUND == "not_found(registry::E_USER_NOT_FOUND)"
R_NOT_AUTHORIZED == "permission_denied(registry::E_NOT_AUTHORIZED)"
F_ALREADY_INITIALIZED == "already_exists(facepay::E_SYSTEM_NOT_INITIALIZED)"
F_INVALID_AMOUNT == "invalid_argument(facepay::E_INVALID_AMOUNT)"
F_SYSTEM_NOT_INITIALIZED == "not_found(facepay::E_SYSTEM_NOT_INITIALIZED)"
F_RECIPIENT_NOT_FOUND == "not_found(facepay::E_RECIPIENT_NOT_FOUND)"
F_SAME_SENDER_RECIPIENT == "invalid_argument(facepay::E_SAME_SENDER_RECIPIENT)"
F_INSUFFICIENT_BALANCE == "insufficient_funds(facepay::E_INSUFFICIENT_BALANCE)"
F_NOT_AUTHORIZED == "permission_denied(facepay::E_NOT_AUTHORIZED)"
\* Aborts raised below the modules: move_to on an occupied slot, borrow_global
\* of an absent resource, smart_table::add of a present key.
VM_RESOURCE_ALREADY_EXISTS == "vm(RESOURCE_ALREADY_EXISTS)"
VM_MISSING_DATA == "vm(MISSING_DATA)"
TABLE_ALREADY_EXIST == "invalid_argument(smart_table::EALREADY_EXIST)"
\* Aborts of facepay::enhanced_payment.
E_ALREADY_INITIALIZED == "already_exists(enhanced_payment::E_SYSTEM_NOT_INITIALIZED)"
E_SYSTEM_NOT_INITIALIZED == "not_found(enhanced_payment::E_SYSTEM_NOT_INITIALIZED)"
E_USER_NOT_FOUND == "not_found(enhanced_payment::E_USER_NOT_FOUND)"
E_INVALID_FACE_HASH == "invalid_argument(enhanced_payment::E_INVALID_FACE_HASH)"
E_SAME_SENDER_RECIPIENT == "invalid_argument(enhanced_payment::E_SAME_SENDER_RECIPIENT)"
E_INSUFFICIENT_BALANCE == "insufficient_funds(enhanced_payment::E_INSUFFICIENT_BALANCE)"

----------------------------------------------------------------------------
\* SmartTable<K, V> as a function on its key set.

EmptyTable == [k \in {} |-> TRUE]
table_contains(t, k) == k \in DOMAIN t
table_add(t, k, v) == [x \in DOMAIN t \cup {k} |-> IF x = k THEN v ELSE t[x]]
table_remove(t, k) == [x \in DOMAIN t \ {k} |-> t[x]]

\* Global storage: exists<T>(a) and move_to<T>(a, v).
exists_at(res, a) == a \in DOMAIN res
move_to(res, a, v) == [x \in DOMAIN res \cup {a} |-> IF x = a THEN v ELSE res[x]]

\* Option<address>.
None == "none"

\* The record of a call, kept for the properties.
Call(op, err) == [op |-> op, err |-> err]

----------------------------------------------------------------------------
\* facepay::registry

\* get_user_by_face_hash
get_user_by_face_hash(registry_admin, face_hash) ==
    IF ~exists_at(registry_config, registry_admin) THEN None
    ELSE IF table_contains(registry_config[registry_admin].face_to_user, face_hash)
         THEN registry_config[registry_admin].face_to_user[face_hash]
         ELSE None

user_exists_by_face(registry_admin, face_hash) ==
    IF ~exists_at(registry_config, registry_admin) THEN FALSE
    ELSE table_contains(registry_config[registry_admin].face_to_user, face_hash)

user_exists_by_address(registry_admin, aptos_address) ==
    IF ~exists_at(registry_config, registry_admin) THEN FALSE
    ELSE table_contains(registry_config[registry_admin].address_to_user, aptos_address)

user_profile_exists(user_address) == exists_at(user_profile, user_address)

get_registry_stats(registry_admin) ==
    IF ~exists_at(registry_config, registry_admin) THEN 0
    ELSE registry_config[registry_admin].user_count

\* registry::initialize(admin): the abort it ends with, or OK.
registry_initialize_abort(admin) ==
    IF exists_at(registry_config, admin) THEN R_USER_ALREADY_EXISTS
    ELSE IF exists_at(registry_admin_cap, admin) THEN VM_RESOURCE_ALREADY_EXISTS
    ELSE OK

NewRegistryConfig ==
    [face_to_user |-> EmptyTable, address_to_user |-> EmptyTable, user_count |-> 0,
     user_registered_events |-> 0, user_preferences_updated_events |-> 0,
     user_verification_updated_events |-> 0]

registry_initialize(admin) ==
    LET err == registry_initialize_abort(admin) IN
    /\ last' = Call("registry_initialize", err)
    /\ IF err = OK
       THEN /\ tx_count < MaxTx
            /\ registry_admin_cap' = move_to(registry_admin_cap, admin, [admin |-> admin])
            /\ registry_config' = move_to(registry_config, admin, NewRegistryConfig)
            /\ tx_count' = tx_count + 1
            /\ UNCHANGED <<user_profile, system, admin_cap, payment_counter,
                           payment_tx, balance, enhanced_config, now>>
       ELSE UNCHANGED <<chain, now, tx_count>>

\* register_user_abort without the face_to_user check.
register_user_abort_no_face_check(user, face_hash, registry_admin) ==
    IF face_hash = "" THEN R_INVALID_FACE_HASH
    ELSE IF ~exists_at(registry_config, registry_admin) THEN R_REGISTRY_NOT_INITIALIZED
    ELSE IF table_contains(registry_config[registry_admin].address_to_user, user)
         THEN R_USER_ALREADY_EXISTS
    ELSE IF exists_at(user_profile, user) THEN VM_RESOURCE_ALREADY_EXISTS
    ELSE OK

\* register_user: the abort it ends with, or OK.  The asserts come first, in the
\* source's order; move_to<UserProfile> at the end aborts when the signer holds one.
register_user_abort(user, face_hash, registry_admin) ==
    IF face_hash = "" THEN R_INVALID_FACE_HASH
    ELSE IF ~exists_at(registry_config, registry_admin) THEN R_REGISTRY_NOT_INITIALIZED
    ELSE IF table_contains(registry_config[registry_admin].face_to_user, face_hash)
         THEN R_USER_ALREADY_EXISTS
    ELSE IF table_contains(registry_config[registry_admin].address_to_user, user)
         THEN R_USER_ALREADY_EXISTS
    ELSE IF exists_at(user_profile, user) THEN VM_RESOURCE_ALREADY_EXISTS
    ELSE OK

NewUserProfile(user, face_hash, storage_blob_id, preferred_token, display_name) ==
    [aptos_address |-> user, face_hash |-> face_hash,
     storage_blob_id |-> storage_blob_id, preferred_token |-> preferred_token,
     display_name |-> display_name, created_at |-> now, updated_at |-> now,
     is_verified |-> FALSE, payment_count |-> 0]

\* register_user_config with the face hash bound to the registry admin.
register_user_config_wrong_owner(user, face_hash, registry_admin) ==
    LET c == registry_config[registry_admin] IN
    [registry_config EXCEPT ![registry_admin] =
        [c EXCEPT !.face_to_user = table_add(c.face_to_user, face_hash, registry_admin),
                  !.address_to_user = table_add(c.address_to_user, user, TRUE),
                  !.user_count = c.user_count + 1,
                  !.user_registered_events = c.user_registered_events + 1]]

\* register_user_config without the entry in face_to_user.
register_user_config_no_face_index(user, face_hash, registry_admin) ==
    LET c == registry_config[registry_admin] IN
    [registry_config EXCEPT ![registry_admin] =
        [c EXCEPT !.address_to_user = table_add(c.address_to_user, user, TRUE),
                  !.user_count = c.user_count + 1,
                  !.user_registered_events = c.user_registered_events + 1]]

\* register_user_config without the increment of user_count.
register_user_config_no_count(user, face_hash, registry_admin) ==
    LET c == registry_config[registry_admin] IN
    [registry_config EXCEPT ![registry_admin] =
        [c EXCEPT !.face_to_user = table_add(c.face_to_user, face_hash, user),
                  !.address_to_user = table_add(c.address_to_user, user, TRUE),
                  !.user_registered_events = c.user_registered_events + 1]]

\* The index writes of register_user: both tables, the count, the event.
register_user_config(user, face_hash, registry_admin) ==
    LET c == registry_config[registry_admin] IN
    [registry_config EXCEPT ![registry_admin] =
        [c EXCEPT !.face_to_user = table_add(c.face_to_user, face_hash, user),
                  !.address_to_user = table_add(c.address_to_user, user, TRUE),
                  !.user_count = c.user_count + 1,
                  !.user_registered_events = c.user_registered_events + 1]]

register_user(user, face_hash, storage_blob_id, preferred_token, display_name, registry_admin) ==
    LET err == register_user_abort(user, face_hash, registry_admin) IN
    /\ last' = Call("register_user", err)
    /\ IF err = OK
       THEN /\ tx_count < MaxTx
            /\ registry_config' = register_user_config(user, face_hash, registry_admin)
            /\ user_profile' = move_to(user_profile, user,
                   NewUserProfile(user, face_hash, storage_blob_id, preferred_token, display_name))
            /\ tx_count' = tx_count + 1
            /\ UNCHANGED <<registry_admin_cap, system, admin_cap, payment_counter,
                           payment_tx, balance, enhanced_config, now>>
       ELSE UNCHANGED <<chain, now, tx_count>>


\* update_preferences_abort with the RegistryConfig borrowed ahead of the
\* assert on the caller's UserProfile.
update_preferences_abort_config_first(user, registry_admin) ==
    IF ~exists_at(registry_config, registry_admin) THEN VM_MISSING_DATA
    ELSE IF ~exists_at(user_profile, user) THEN R_USER_NOT_FOUND
    ELSE OK

\* update_preferences: the abort it ends with, or OK.  The RegistryConfig is
\* borrowed for the event without an exists check.
update_preferences_abort(user, registry_admin) ==
    IF ~exists_at(user_profile, user) THEN R_USER_NOT_FOUND
    ELSE IF ~exists_at(registry_config, registry_admin) THEN VM_MISSING_DATA
    ELSE OK

update_preferences(user, preferred_token, display_name, registry_admin) ==
    LET err == update_preferences_abort(user, registry_admin) IN
    /\ last' = Call("update_preferences", err)
    /\ IF err = OK
       THEN /\ tx_count < MaxTx
            /\ user_profile' = [user_profile EXCEPT ![user] =
                   [@ EXCEPT !.preferred_token = preferred_token,
                             !.display_name = display_name,
                             !.updated_at = now]]
            /\ registry_config' = [registry_config EXCEPT
                   ![registry_admin].user_preferences_updated_events = @ + 1]
            /\ tx_count' = tx_count + 1
            /\ UNCHANGED <<registry_admin_cap, system, admin_cap, payment_counter,
                           payment_tx, balance, enhanced_config, now>>
       ELSE UNCHANGED <<chain, now, tx_count>>

\* verify_user / unverify_user: the abort they end with, or OK.
set_verified_abort(admin, user_address, registry_admin) ==
    IF ~exists_at(registry_admin_cap, admin) THEN R_NOT_AUTHORIZED
    ELSE IF registry_admin_cap[admin].admin # admin THEN R_NOT_AUTHORIZED
    ELSE IF ~exists_at(user_profile, user_address) THEN R_USER_NOT_FOUND
    ELSE IF ~exists_at(registry_config, registry_admin) THEN VM_MISSING_DATA
    ELSE OK

set_verified(op, admin, user_address, registry_admin, flag) ==
    LET err == set_verified_abort(admin, user_address, registry_admin) IN
    /\ last' = Call(op, err)
    /\ IF err = OK
       THEN /\ tx_count < MaxTx
            /\ user_profile' = [user_profile EXCEPT ![user_address] =
                   [@ EXCEPT !.is_verified = flag, !.updated_at = now]]
            /\ registry_config' = [registry_config EXCEPT
                   ![registry_admin].user_verification_updated_events = @ + 1]
            /\ tx_count' = tx_count + 1
            /\ UNCHANGED <<registry_admin_cap, system, admin_cap, payment_counter,
                           payment_tx, balance, enhanced_config, now>>
       ELSE UNCHANGED <<chain, now, tx_count>>

verify_user(admin, user_address, registry_admin) ==
    set_verified("verify_user", admin, user_address, registry_admin, TRUE)

unverify_user(admin, user_address, registry_admin) ==
    set_verified("unverify_user", admin, user_address, registry_admin, FALSE)

----------------------------------------------------------------------------
\* facepay::facepay

is_token_supported(system_admin, token_address) ==
    IF ~exists_at(system, system_admin) THEN FALSE
    ELSE table_contains(system[system_admin].supported_tokens, token_address)

get_min_payment_amount(system_admin, token_address) ==
    IF ~exists_at(system, system_admin) THEN MIN_PAYMENT_AMOUNT
    ELSE IF table_contains(system[system_admin].min_amounts, token_address)
         THEN system[system_admin].min_amounts[token_address]
         ELSE MIN_PAYMENT_AMOUNT

get_system_stats(system_admin) ==
    IF ~exists_at(system, system_admin) THEN <<0, 0, 0>>
    ELSE <<system[system_admin].total_payments, system[system_admin].total_volume,
           system[system_admin].fee_bps>>

get_payment_counter(system_admin) ==
    IF ~exists_at(payment_counter, system_admin) THEN 0
    ELSE payment_counter[system_admin].counter

\* facepay_initialize_abort without the assert on exists<FacePaySystem>: the
\* first move_to is what stops a second call.
facepay_initialize_abort_no_assert(admin) ==
    IF exists_at(admin_cap, admin) \/ exists_at(system, admin)
       \/ exists_at(payment_counter, admin)
    THEN VM_RESOURCE_ALREADY_EXISTS
    ELSE OK

\* facepay::initialize(admin, registry_admin): the abort it ends with, or OK.
facepay_initialize_abort(admin) ==
    IF exists_at(system, admin) THEN F_ALREADY_INITIALIZED
    ELSE IF exists_at(admin_cap, admin) \/ exists_at(payment_counter, admin)
         THEN VM_RESOURCE_ALREADY_EXISTS
    ELSE OK

\* The three event handles of a FacePaySystem are kept as one stream, in the
\* order of emission.
NewFacePaySystem(registry_admin) ==
    [supported_tokens |-> table_add(EmptyTable, APT, TRUE),
     min_amounts |-> table_add(EmptyTable, APT, MIN_PAYMENT_AMOUNT),
     fee_bps |-> DEFAULT_FEE_BPS, total_payments |-> 0, total_volume |-> 0,
     registry_admin |-> registry_admin, events |-> << >>]

facepay_initialize(admin, registry_admin) ==
    LET err == facepay_initialize_abort(admin) IN
    /\ last' = Call("facepay_initialize", err)
    /\ IF err = OK
       THEN /\ tx_count < MaxTx
            /\ admin_cap' = move_to(admin_cap, admin, [admin |-> admin])
            /\ system' = move_to(system, admin, NewFacePaySystem(registry_admin))
            /\ payment_counter' = move_to(payment_counter, admin, [counter |-> 0])
            /\ tx_count' = tx_count + 1
            /\ UNCHANGED <<registry_config, registry_admin_cap, user_profile,
                           payment_tx, balance, enhanced_config, now>>
       ELSE UNCHANGED <<chain, now, tx_count>>

\* The recipient a payment resolves, through the registry the ledger is bound to.
pay_recipient(recipient_face_hash, system_admin) ==
    get_user_by_face_hash(system[system_admin].registry_admin, recipient_face_hash)

\* The amount check of the payment functions.
pay_amount_ok(amount, system_admin) == amount >= MIN_PAYMENT_AMOUNT

\* Whether the final move_to(sender, payment_tx) finds the slot free.
pay_store_ok(sender) == ~exists_at(payment_tx, sender)

\* pay_abort with the balance check ahead of the sender/recipient check.
pay_abort_balance_first(sender, recipient_face_hash, amount, system_admin, with_profile) ==
    IF ~pay_amount_ok(amount, system_admin) THEN F_INVALID_AMOUNT
    ELSE IF ~exists_at(system, system_admin) THEN F_SYSTEM_NOT_INITIALIZED
    ELSE LET recipient_address == pay_recipient(recipient_face_hash, system_admin) IN
         IF recipient_address = None THEN F_RECIPIENT_NOT_FOUND
         ELSE IF with_profile /\ ~user_profile_exists(recipient_address)
              THEN F_RECIPIENT_NOT_FOUND
         ELSE IF ~(balance[sender] >= amount) THEN F_INSUFFICIENT_BALANCE
         ELSE IF sender = recipient_address THEN F_SAME_SENDER_RECIPIENT
         ELSE IF ~exists_at(payment_counter, system_admin) THEN VM_MISSING_DATA
         ELSE IF ~pay_store_ok(sender) THEN VM_RESOURCE_ALREADY_EXISTS
         ELSE OK

\* pay_abort with the recipient resolved ahead of the amount check.
pay_abort_recipient_first(sender, recipient_face_hash, amount, system_admin, with_profile) ==
    IF ~exists_at(system, system_admin) THEN F_SYSTEM_NOT_INITIALIZED
    ELSE LET recipient_address == pay_recipient(recipient_face_hash, system_admin) IN
         IF recipient_address = None THEN F_RECIPIENT_NOT_FOUND
         ELSE IF with_profile /\ ~user_profile_exists(recipient_address)
              THEN F_RECIPIENT_NOT_FOUND
         ELSE IF ~pay_amount_ok(amount, system_admin) THEN F_INVALID_AMOUNT
         ELSE IF sender = recipient_address THEN F_SAME_SENDER_RECIPIENT
         ELSE IF ~(balance[sender] >= amount) THEN F_INSUFFICIENT_BALANCE
         ELSE IF ~exists_at(payment_counter, system_admin) THEN VM_MISSING_DATA
         ELSE IF ~pay_store_ok(sender) THEN VM_RESOURCE_ALREADY_EXISTS
         ELSE OK

\* pay_by_face_apt / pay_by_face_apt_with_profile: the abort they end with, or OK.
pay_abort(sender, recipient_face_hash, amount, system_admin, with_profile) ==
    IF ~pay_amount_ok(amount, system_admin) THEN F_INVALID_AMOUNT
    ELSE IF ~exists_at(system, system_admin) THEN F_SYSTEM_NOT_INITIALIZED
    ELSE LET recipient_address == pay_recipient(recipient_face_hash, system_admin) IN
         IF recipient_address = None THEN F_RECIPIENT_NOT_FOUND
         ELSE IF with_profile /\ ~user_profile_exists(recipient_address)
              THEN F_RECIPIENT_NOT_FOUND
         ELSE IF sender = recipient_address THEN F_SAME_SENDER_RECIPIENT
         ELSE IF ~(balance[sender] >= amount) THEN F_INSUFFICIENT_BALANCE
         ELSE IF ~exists_at(payment_counter, system_admin) THEN VM_MISSING_DATA
         ELSE IF ~pay_store_ok(sender) THEN VM_RESOURCE_ALREADY_EXISTS
         ELSE OK

\* fee_of at the default rate, whatever the ledger's rate is.
fee_of_default_rate(amount, fee_bps) == (amount * DEFAULT_FEE_BPS) \div BPS_DENOMINATOR

\* let fee_amount = (amount * system.fee_bps) / 10000
fee_of(amount, fee_bps) == (amount * fee_bps) \div BPS_DENOMINATOR

\* coin::withdraw, coin::deposit.  Every account has a CoinStore<AptosCoin>, and
\* the amounts of the model stay far below the u64 range, so neither call aborts
\* once the balance check has passed.
coin_withdraw(b, a, n) == [b EXCEPT ![a] = @ - n]
coin_deposit(b, a, n) == [b EXCEPT ![a] = @ + n]

\* pay_transfers with the fee not taken out of what the recipient gets.
pay_transfers_no_split(b, sender, recipient_address, system_admin, amount, fee_amount) ==
    coin_deposit(
        coin_deposit(coin_withdraw(b, sender, amount), system_admin, fee_amount),
        recipient_address, amount)

\* pay_transfers with the fee withdrawn and deposited nowhere.
pay_transfers_fee_dropped(b, sender, recipient_address, system_admin, amount, fee_amount) ==
    coin_deposit(coin_withdraw(b, sender, amount), recipient_address, amount - fee_amount)

\* The coin movements of a payment: withdraw from the sender, deposit the fee
\* to system_admin, deposit the rest to the recipient.
pay_transfers(b, sender, recipient_address, system_admin, amount, fee_amount) ==
    coin_deposit(
        coin_deposit(coin_withdraw(b, sender, amount), system_admin, fee_amount),
        recipient_address, amount - fee_amount)

\* NewPaymentTx with the status left at 0, pending.
NewPaymentTx_pending(sender, recipient_face_hash, recipient_address, amount, fee_amount, payment_id, with_profile) ==
    [sender |-> sender, recipient_face_hash |-> recipient_face_hash,
     recipient_address |-> recipient_address, original_token |-> APT,
     original_amount |-> amount, received_token |-> APT,
     received_amount |-> amount - fee_amount, fee_amount |-> fee_amount,
     swap_required |-> FALSE,
     swap_details |-> IF with_profile THEN "No swap required - APT to APT (verified)"
                      ELSE "No swap required - APT to APT",
     timestamp |-> now, status |-> 0, payment_id |-> payment_id]

NewPaymentTx(sender, recipient_face_hash, recipient_address, amount, fee_amount, payment_id, with_profile) ==
    [sender |-> sender, recipient_face_hash |-> recipient_face_hash,
     recipient_address |-> recipient_address, original_token |-> APT,
     original_amount |-> amount, received_token |-> APT,
     received_amount |-> amount - fee_amount, fee_amount |-> fee_amount,
     swap_required |-> FALSE,
     swap_details |-> IF with_profile THEN "No swap required - APT to APT (verified)"
                      ELSE "No swap required - APT to APT",
     timestamp |-> now, status |-> 1, payment_id |-> payment_id]

PaymentInitiatedEvent(payment_id, sender, recipient_face_hash, recipient_address, amount) ==
    [type |-> "PaymentInitiated", payment_id |-> payment_id, sender |-> sender,
     recipient_face_hash |-> recipient_face_hash,
     recipient_address |-> recipient_address, original_token |-> APT,
     original_amount |-> amount, timestamp |-> now]

PaymentCompletedEvent(payment_id, sender, recipient_address, amount, fee_amount) ==
    [type |-> "PaymentCompleted", payment_id |-> payment_id, sender |-> sender,
     recipient_address |-> recipient_address, received_token |-> APT,
     received_amount |-> amount - fee_amount, fee_amount |-> fee_amount,
     swap_required |-> FALSE, timestamp |-> now]

\* pay_commit with the net amount, not the amount, added to total_volume.
pay_commit_net_volume(sender, recipient_face_hash, amount, system_admin, with_profile) ==
    LET sys == system[system_admin]
        recipient_address == pay_recipient(recipient_face_hash, system_admin)
        fee_amount == fee_of(amount, sys.fee_bps)
        payment_id == payment_counter[system_admin].counter + 1
    IN
    /\ payment_counter' = [payment_counter EXCEPT ![system_admin].counter = payment_id]
    /\ balance' = pay_transfers(balance, sender, recipient_address, system_admin,
                                amount, fee_amount)
    /\ system' = [system EXCEPT ![system_admin] =
           [sys EXCEPT !.total_payments = sys.total_payments + 1,
                       !.total_volume = sys.total_volume + (amount - fee_amount),
                       !.events = sys.events \o
                           <<PaymentInitiatedEvent(payment_id, sender, recipient_face_hash,
                                                   recipient_address, amount),
                             PaymentCompletedEvent(payment_id, sender, recipient_address,
                                                   amount, fee_amount)>>]]
    /\ payment_tx' = move_to(payment_tx, sender,
           NewPaymentTx(sender, recipient_face_hash, recipient_address, amount,
                        fee_amount, payment_id, with_profile))

\* pay_commit with the payment id read before the counter is incremented.
pay_commit_id_before_increment(sender, recipient_face_hash, amount, system_admin, with_profile) ==
    LET sys == system[system_admin]
        recipient_address == pay_recipient(recipient_face_hash, system_admin)
        fee_amount == fee_of(amount, sys.fee_bps)
        payment_id == payment_counter[system_admin].counter
    IN
    /\ payment_counter' = [payment_counter EXCEPT ![system_admin].counter = payment_id + 1]
    /\ balance' = pay_transfers(balance, sender, recipient_address, system_admin,
                                amount, fee_amount)
    /\ system' = [system EXCEPT ![system_admin] =
           [sys EXCEPT !.total_payments = sys.total_payments + 1,
                       !.total_volume = sys.total_volume + amount,
                       !.events = sys.events \o
                           <<PaymentInitiatedEvent(payment_id, sender, recipient_face_hash,
                                                   recipient_address, amount),
                             PaymentCompletedEvent(payment_id, sender, recipient_address,
                                                   amount, fee_amount)>>]]
    /\ payment_tx' = move_to(payment_tx, sender,
           NewPaymentTx(sender, recipient_face_hash, recipient_address, amount,
                        fee_amount, payment_id, with_profile))

\* pay_commit with PaymentCompleted emitted ahead of PaymentInitiated.
pay_commit_completed_first(sender, recipient_face_hash, amount, system_admin, with_profile) ==
    LET sys == system[system_admin]
        recipient_address == pay_recipient(recipient_face_hash, system_admin)
        fee_amount == fee_of(amount, sys.fee_bps)
        payment_id == payment_counter[system_admin].counter + 1
    IN
    /\ payment_counter' = [payment_counter EXCEPT ![system_admin].counter = payment_id]
    /\ balance' = pay_transfers(balance, sender, recipient_address, system_admin,
                                amount, fee_amount)
    /\ system' = [system EXCEPT ![system_admin] =
           [sys EXCEPT !.total_payments = sys.total_payments + 1,
                       !.total_volume = sys.total_volume + amount,
                       !.events = sys.events \o
                           <<PaymentCompletedEvent(payment_id, sender, recipient_address,
                                                   amount, fee_amount),
                             PaymentInitiatedEvent(payment_id, sender, recipient_face_hash,
                                                   recipient_address, amount)>>]]
    /\ payment_tx' = move_to(payment_tx, sender,
           NewPaymentTx(sender, recipient_face_hash, recipient_address, amount,
                        fee_amount, payment_id, with_profile))

\* The writes of a payment that runs to its end.
pay_commit(sender, recipient_face_hash, amount, system_admin, with_profile) ==
    LET sys == system[system_admin]
        recipient_address == pay_recipient(recipient_face_hash, system_admin)
        fee_amount == fee_of(amount, sys.fee_bps)
        payment_id == payment_counter[system_admin].counter + 1
    IN
    /\ payment_counter' = [payment_counter EXCEPT ![system_admin].counter = payment_id]
    /\ balance' = pay_transfers(balance, sender, recipient_address, system_admin,
                                amount, fee_amount)
    /\ system' = [system EXCEPT ![system_admin] =
           [sys EXCEPT !.total_payments = sys.total_payments + 1,
                       !.total_volume = sys.total_volume + amount,
                       !.events = sys.events \o
                           <<PaymentInitiatedEvent(payment_id, sender, recipient_face_hash,
                                                   recipient_address, amount),
                             PaymentCompletedEvent(payment_id, sender, recipient_address,
                                                   amount, fee_amount)>>]]
    /\ payment_tx' = move_to(payment_tx, sender,
           NewPaymentTx(sender, recipient_face_hash, recipient_address, amount,
                        fee_amount, payment_id, with_profile))

\* pay without the rollback: an abort at the final move_to keeps the transfers.
pay_no_rollback(op, sender, recipient_face_hash, amount, system_admin, with_profile) ==
    LET err == pay_abort(sender, recipient_face_hash, amount, system_admin, with_profile)
        sys == system[system_admin]
    IN
    /\ last' = Call(op, err)
    /\ IF err = OK
       THEN /\ tx_count < MaxTx
            /\ pay_commit(sender, recipient_face_hash, amount, system_admin, with_profile)
            /\ tx_count' = tx_count + 1
            /\ UNCHANGED <<registry_config, registry_admin_cap, user_profile,
                           admin_cap, enhanced_config, now>>
       ELSE IF err = VM_RESOURCE_ALREADY_EXISTS
       THEN /\ balance' = pay_transfers(balance, sender,
                               pay_recipient(recipient_face_hash, system_admin),
                               system_admin, amount, fee_of(amount, sys.fee_bps))
            /\ UNCHANGED <<registry_config, registry_admin_cap, user_profile, system,
                           admin_cap, payment_counter, payment_tx, enhanced_config, now,
                           tx_count>>
       ELSE UNCHANGED <<chain, now, tx_count>>

pay(op, sender, recipient_face_hash, amount, system_admin, with_profile) ==
    LET err == pay_abort(sender, recipient_face_hash, amount, system_admin, with_profile) IN
    /\ last' = Call(op, err)
    /\ IF err = OK
       THEN /\ tx_count < MaxTx
            /\ pay_commit(sender, recipient_face_hash, amount, system_admin, with_profile)
            /\ tx_count' = tx_count + 1
            /\ UNCHANGED <<registry_config, registry_admin_cap, user_profile,
                           admin_cap, enhanced_config, now>>
       ELSE UNCHANGED <<chain, now, tx_count>>

pay_by_face_apt(sender, recipient_face_hash, amount, system_admin) ==
    pay("pay_by_face_apt", sender, recipient_face_hash, amount, system_admin, FALSE)

pay_by_face_apt_with_profile(sender, recipient_face_hash, amount, system_admin) ==
    pay("pay_by_face_apt_with_profile", sender, recipient_face_hash, amount,
        system_admin, TRUE)

\* The admin check shared by the three admin functions.
admin_check(admin, system_admin) ==
    /\ exists_at(admin_cap, admin)
    /\ admin_cap[admin].admin = admin

\* add_supported_token_abort with smart_table::upsert in place of add.
add_supported_token_abort_upsert(admin, token_address, system_admin) ==
    IF ~admin_check(admin, system_admin) THEN F_NOT_AUTHORIZED
    ELSE IF ~exists_at(system, system_admin) THEN F_SYSTEM_NOT_INITIALIZED
    ELSE OK

\* add_supported_token: the abort it ends with, or OK.  smart_table::add aborts
\* when the key is present.
add_supported_token_abort(admin, token_address, system_admin) ==
    IF ~admin_check(admin, system_admin) THEN F_NOT_AUTHORIZED
    ELSE IF ~exists_at(system, system_admin) THEN F_SYSTEM_NOT_INITIALIZED
    ELSE IF table_contains(system[system_admin].supported_tokens, token_address)
         THEN TABLE_ALREADY_EXIST
    ELSE IF table_contains(system[system_admin].min_amounts, token_address)
         THEN TABLE_ALREADY_EXIST
    ELSE OK

add_supported_token(admin, token_address, min_amount, system_admin) ==
    LET err == add_supported_token_abort(admin, token_address, system_admin) IN
    /\ last' = Call("add_supported_token", err)
    /\ IF err = OK
       THEN /\ tx_count < MaxTx
            /\ system' = [system EXCEPT ![system_admin] =
                   [@ EXCEPT !.supported_tokens = table_add(@, token_address, TRUE),
                             !.min_amounts = table_add(@, token_address, min_amount)]]
            /\ tx_count' = tx_count + 1
            /\ UNCHANGED <<registry_config, registry_admin_cap, user_profile, admin_cap,
                           payment_counter, payment_tx, balance, enhanced_config, now>>
       ELSE UNCHANGED <<chain, now, tx_count>>

remove_supported_token_abort(admin, system_admin) ==
    IF ~admin_check(admin, system_admin) THEN F_NOT_AUTHORIZED
    ELSE IF ~exists_at(system, system_admin) THEN F_SYSTEM_NOT_INITIALIZED
    ELSE OK

remove_supported_token(admin, token_address, system_admin) ==
    LET err == remove_supported_token_abort(admin, system_admin) IN
    /\ last' = Call("remove_supported_token", err)
    /\ IF err = OK
       THEN /\ tx_count < MaxTx
            /\ system' = [system EXCEPT ![system_admin] =
                   [@ EXCEPT !.supported_tokens =
                                 IF table_contains(@, token_address)
                                 THEN table_remove(@, token_address) ELSE @,
                             !.min_amounts =
                                 IF table_contains(@, token_address)
                                 THEN table_remove(@, token_address) ELSE @]]
            /\ tx_count' = tx_count + 1
            /\ UNCHANGED <<registry_config, registry_admin_cap, user_profile, admin_cap,
                           payment_counter, payment_tx, balance, enhanced_config, now>>
       ELSE UNCHANGED <<chain, now, tx_count>>

\* update_fee_bps_abort without the cap on the rate.
update_fee_bps_abort_no_cap(admin, new_fee_bps, system_admin) ==
    IF ~admin_check(admin, system_admin) THEN F_NOT_AUTHORIZED
    ELSE IF ~exists_at(system, system_admin) THEN F_SYSTEM_NOT_INITIALIZED
    ELSE OK

update_fee_bps_abort(admin, new_fee_bps, system_admin) ==
    IF ~admin_check(admin, system_admin) THEN F_NOT_AUTHORIZED
    ELSE IF ~(new_fee_bps <= MAX_FEE_BPS) THEN F_INVALID_AMOUNT
    ELSE IF ~exists_at(system, system_admin) THEN F_SYSTEM_NOT_INITIALIZED
    ELSE OK

update_fee_bps(admin, new_fee_bps, system_admin) ==
    LET err == update_fee_bps_abort(admin, new_fee_bps, system_admin) IN
    /\ last' = Call("update_fee_bps", err)
    /\ IF err = OK
       THEN /\ tx_count < MaxTx
            /\ system' = [system EXCEPT ![system_admin].fee_bps = new_fee_bps]
            /\ tx_count' = tx_count + 1
            /\ UNCHANGED <<registry_config, registry_admin_cap, user_profile, admin_cap,
                           payment_counter, payment_tx, balance, enhanced_config, now>>
       ELSE UNCHANGED <<chain, now, tx_count>>

----------------------------------------------------------------------------
\* facepay::enhanced_payment

enhanced_initialize_abort(admin) ==
    IF exists_at(enhanced_config, admin) THEN E_ALREADY_INITIALIZED ELSE OK

NewEnhancedPaymentConfig(system_admin, registry_admin) ==
    [system_admin |-> system_admin, registry_admin |-> registry_admin,
     face_payment_completed_events |-> << >>,
     face_verification_success_events |-> << >>]

enhanced_initialize(admin, system_admin, registry_admin) ==
    LET err == enhanced_initialize_abort(admin) IN
    /\ last' = Call("enhanced_initialize", err)
    /\ IF err = OK
       THEN /\ tx_count < MaxTx
            /\ enhanced_config' = move_to(enhanced_config, admin,
                   NewEnhancedPaymentConfig(system_admin, registry_admin))
            /\ tx_count' = tx_count + 1
            /\ UNCHANGED <<registry_config, registry_admin_cap, user_profile, system,
                           admin_cap, payment_counter, payment_tx, balance, now>>
       ELSE UNCHANGED <<chain, now, tx_count>>

\* The recipient the facade resolves, through the registry its configuration names.
enhanced_recipient(recipient_face_hash, enhanced_admin) ==
    get_user_by_face_hash(enhanced_config[enhanced_admin].registry_admin, recipient_face_hash)

\* enhanced_pay_abort with the balance check strict: balance > amount.
enhanced_pay_abort_strict_balance(sender, recipient_face_hash, amount, enhanced_admin, with_verification) ==
    IF ~exists_at(enhanced_config, enhanced_admin) THEN E_SYSTEM_NOT_INITIALIZED
    ELSE LET config == enhanced_config[enhanced_admin]
             recipient_address == enhanced_recipient(recipient_face_hash, enhanced_admin)
         IN
         IF recipient_address = None THEN E_USER_NOT_FOUND
         ELSE IF ~user_profile_exists(recipient_address) THEN E_USER_NOT_FOUND
         ELSE IF with_verification
                 /\ ~user_exists_by_face(config.registry_admin, recipient_face_hash)
              THEN E_INVALID_FACE_HASH
         ELSE IF sender = recipient_address THEN E_SAME_SENDER_RECIPIENT
         ELSE IF ~(balance[sender] > amount) THEN E_INSUFFICIENT_BALANCE
         ELSE pay_abort(sender, recipient_face_hash, amount, config.system_admin, TRUE)

\* pay_by_face_enhanced / pay_by_face_enhanced_with_verification: the abort they
\* end with, or OK.  The facade's own asserts come first; an abort of the
\* ledger call it makes next aborts the facade call.
enhanced_pay_abort(sender, recipient_face_hash, amount, enhanced_admin, with_verification) ==
    IF ~exists_at(enhanced_config, enhanced_admin) THEN E_SYSTEM_NOT_INITIALIZED
    ELSE LET config == enhanced_config[enhanced_admin]
             recipient_address == enhanced_recipient(recipient_face_hash, enhanced_admin)
         IN
         IF recipient_address = None THEN E_USER_NOT_FOUND
         ELSE IF ~user_profile_exists(recipient_address) THEN E_USER_NOT_FOUND
         ELSE IF with_verification
                 /\ ~user_exists_by_face(config.registry_admin, recipient_face_hash)
              THEN E_INVALID_FACE_HASH
         ELSE IF sender = recipient_address THEN E_SAME_SENDER_RECIPIENT
         ELSE IF ~(balance[sender] >= amount) THEN E_INSUFFICIENT_BALANCE
         ELSE pay_abort(sender, recipient_face_hash, amount, config.system_admin, TRUE)

FaceVerificationSuccessEvent(face_hash, recipient_address) ==
    [face_hash |-> face_hash, recipient_address |-> recipient_address, timestamp |-> now]

FacePaymentCompletedEvent(payment_id, sender, recipient_face_hash, recipient_address, amount, fee_amount) ==
    [payment_id |-> payment_id, sender |-> sender,
     recipient_face_hash |-> recipient_face_hash,
     recipient_address |-> recipient_address, preferred_token |-> APT,
     amount_paid |-> amount, fee_amount |-> fee_amount, timestamp |-> now]

\* let fee_amount = (amount * 30) / 10000
enhanced_event_fee(amount) == (amount * ENHANCED_EVENT_FEE_BPS) \div BPS_DENOMINATOR

\* The writes of a facade payment that runs to its end: the verification event,
\* the ledger's payment, then the completion event with the ledger's counter
\* as get_payment_counter reads it after the payment.
enhanced_pay_commit(sender, recipient_face_hash, amount, enhanced_admin) ==
    LET config == enhanced_config[enhanced_admin]
        recipient_address == enhanced_recipient(recipient_face_hash, enhanced_admin)
        fee_amount == enhanced_event_fee(amount)
        payment_id == payment_counter'[config.system_admin].counter
    IN
    /\ pay_commit(sender, recipient_face_hash, amount, config.system_admin, TRUE)
    /\ enhanced_config' = [enhanced_config EXCEPT ![enhanced_admin] =
           [config EXCEPT
               !.face_verification_success_events = @ \o
                   <<FaceVerificationSuccessEvent(recipient_face_hash, recipient_address)>>,
               !.face_payment_completed_events = @ \o
                   <<FacePaymentCompletedEvent(payment_id, sender, recipient_face_hash,
                                               recipient_address, amount, fee_amount)>>]]

enhanced_pay(op, sender, recipient_face_hash, amount, enhanced_admin, with_verification) ==
    LET err == enhanced_pay_abort(sender, recipient_face_hash, amount, enhanced_admin,
                                  with_verification)
    IN
    /\ last' = Call(op, err)
    /\ IF err = OK
       THEN /\ tx_count < MaxTx
            /\ enhanced_pay_commit(sender, recipient_face_hash, amount, enhanced_admin)
            /\ tx_count' = tx_count + 1
            /\ UNCHANGED <<registry_config, registry_admin_cap, user_profile,
                           admin_cap, now>>
       ELSE UNCHANGED <<chain, now, tx_count>>

pay_by_face_enhanced(sender, recipient_face_hash, amount, enhanced_admin) ==
    enhanced_pay("pay_by_face_enhanced", sender, recipient_face_hash, amount,
                 enhanced_admin, FALSE)

pay_by_face_enhanced_with_verification(sender, recipient_face_hash, amount, enhanced_admin) ==
    enhanced_pay("pay_by_face_enhanced_with_verification", sender, recipient_face_hash,
                 amount, enhanced_admin, TRUE)

\* enhanced_swap_abort with the preferred token checked against the ledger's
\* supported tokens.
enhanced_swap_abort_checks_token(sender, recipient_face_hash, amount, preferred_token_type, max_slippage_bps, enhanced_admin) ==
    IF ~exists_at(enhanced_config, enhanced_admin) THEN E_SYSTEM_NOT_INITIALIZED
    ELSE IF ~is_token_supported(enhanced_config[enhanced_admin].system_admin,
                                preferred_token_type)
         THEN E_INVALID_FACE_HASH
    ELSE enhanced_pay_abort(sender, recipient_face_hash, amount, enhanced_admin, FALSE)

\* pay_by_face_with_swap_enhanced: the abort it ends with, or OK.  It asserts
\* that the configuration exists, reads neither preferred_token_type nor
\* max_slippage_bps, and calls pay_by_face_enhanced.
enhanced_swap_abort(sender, recipient_face_hash, amount, preferred_token_type, max_slippage_bps, enhanced_admin) ==
    IF ~exists_at(enhanced_config, enhanced_admin) THEN E_SYSTEM_NOT_INITIALIZED
    ELSE enhanced_pay_abort(sender, recipient_face_hash, amount, enhanced_admin, FALSE)

pay_by_face_with_swap_enhanced(sender, recipient_face_hash, amount, preferred_token_type, max_slippage_bps, enhanced_admin) ==
    LET err == enhanced_swap_abort(sender, recipient_face_hash, amount,
                                   preferred_token_type, max_slippage_bps, enhanced_admin)
    IN
    /\ last' = Call("pay_by_face_with_swap_enhanced", err)
    /\ IF err = OK
       THEN /\ tx_count < MaxTx
            /\ enhanced_pay_commit(sender, recipient_face_hash, amount, enhanced_admin)
            /\ tx_count' = tx_count + 1
            /\ UNCHANGED <<registry_config, registry_admin_cap, user_profile,
                           admin_cap, now>>
       ELSE UNCHANGED <<chain, now, tx_count>>

\* get_admin_addresses, get_payment_statistics, get_registry_statistics: each
\* asserts that the configuration exists, then reads through it.
enhanced_accessor_abort(enhanced_admin) ==
    IF ~exists_at(enhanced_config, enhanced_admin) THEN E_SYSTEM_NOT_INITIALIZED ELSE OK

get_admin_addresses(enhanced_admin) ==
    <<enhanced_config[enhanced_admin].system_admin,
      enhanced_config[enhanced_admin].registry_admin>>

get_payment_statistics(enhanced_admin) ==
    get_system_stats(enhanced_config[enhanced_admin].system_admin)

get_registry_statistics(enhanced_admin) ==
    get_registry_stats(enhanced_config[enhanced_admin].registry_admin)

----------------------------------------------------------------------------
Init ==
    /\ registry_config = EmptyTable
    /\ registry_admin_cap = EmptyTable
    /\ user_profile = EmptyTable
    /\ system = EmptyTable
    /\ admin_cap = EmptyTable
    /\ payment_counter = EmptyTable
    /\ payment_tx = EmptyTable
    /\ balance = InitialBalance
    /\ enhanced_config = EmptyTable
    /\ now = 0
    /\ tx_count = 0
    /\ last = Call("none", OK)

\* The deployment the frontend is configured for: one admin account has
\* initialized the registry, the ledger bound to it, and the facade over both.
\* MaxDeployedTx transactions of the budget are left.
DeployAdmin == "a1"
Deployed ==
    /\ registry_config = move_to(EmptyTable, DeployAdmin, NewRegistryConfig)
    /\ registry_admin_cap = move_to(EmptyTable, DeployAdmin, [admin |-> DeployAdmin])
    /\ user_profile = EmptyTable
    /\ system = move_to(EmptyTable, DeployAdmin, NewFacePaySystem(DeployAdmin))
    /\ admin_cap = move_to(EmptyTable, DeployAdmin, [admin |-> DeployAdmin])
    /\ payment_counter = move_to(EmptyTable, DeployAdmin, [counter |-> 0])
    /\ payment_tx = EmptyTable
    /\ balance = InitialBalance
    /\ enhanced_config = move_to(EmptyTable, DeployAdmin,
                                 NewEnhancedPaymentConfig(DeployAdmin, DeployAdmin))
    /\ now = 0
    /\ last = Call("none", OK)

InitDeployed == Deployed /\ tx_count = MaxTx - MaxDeployedTx

\* The deployment with MaxConfigTx transactions of the budget left.
InitFacadeConfigs == Deployed /\ tx_count = MaxTx - MaxConfigTx

\* The deployment with MaxIdentityTx transactions of the budget left.
InitIdentity == Deployed /\ tx_count = MaxTx - MaxIdentityTx

Tick ==
    /\ now < MaxTime
    /\ now' = now + 1
    /\ UNCHANGED <<chain, tx_count, last>>

\* The calls of facepay::registry.
NextRegistryInit == \E admin \in Admins : registry_initialize(admin)
NextRegister ==
    \E user \in Addr, f \in FaceHashes, ra \in Admins :
        register_user(user, f, "blob", APT, "n1", ra)
NextPreferences ==
    \E user \in Addr, t \in NewTokens, n \in NewNames, ra \in Admins :
        update_preferences(user, t, n, ra)
NextVerify ==
    \E admin \in Addr, user \in Addr, ra \in Admins : verify_user(admin, user, ra)
NextUnverify ==
    \E admin \in Addr, user \in Addr, ra \in Admins : unverify_user(admin, user, ra)

\* The calls of facepay::facepay.
NextFacepayInit == \E admin \in Admins, ra \in Admins : facepay_initialize(admin, ra)
NextPay ==
    \E sender \in Addr, f \in FaceHashes \ {""}, amount \in Amounts, sa \in Admins :
        pay_by_face_apt(sender, f, amount, sa)
NextPayWithProfile ==
    \E sender \in Addr, f \in FaceHashes \ {""}, amount \in Amounts, sa \in Admins :
        pay_by_face_apt_with_profile(sender, f, amount, sa)
NextAddToken ==
    \E admin \in Addr, t \in Tokens, m \in MinAmounts, sa \in Admins :
        add_supported_token(admin, t, m, sa)
NextRemoveToken ==
    \E admin \in Addr, t \in Tokens, sa \in Admins : remove_supported_token(admin, t, sa)
NextUpdateFee ==
    \E admin \in Addr, r \in FeeRates, sa \in Admins : update_fee_bps(admin, r, sa)

\* The calls of facepay::enhanced_payment.
NextEnhancedInit ==
    \E admin \in Admins, sa \in Admins, ra \in Admins : enhanced_initialize(admin, sa, ra)
NextPayEnhanced ==
    \E sender \in Addr, f \in FaceHashes \ {""}, amount \in Amounts, ea \in Admins :
        pay_by_face_enhanced(sender, f, amount, ea)
NextPayEnhancedVerified ==
    \E sender \in Addr, f \in FaceHashes \ {""}, amount \in Amounts, ea \in Admins :
        pay_by_face_enhanced_with_verification(sender, f, amount, ea)
NextPaySwap ==
    \E sender \in Addr, f \in FaceHashes \ {""}, amount \in Amounts, t \in Tokens, slip \in Slippages, ea \in Admins :
        pay_by_face_with_swap_enhanced(sender, f, amount, t, slip, ea)

\* The registry alone: no other module writes its resources.  The clock stands
\* still: no call reads a stored timestamp or branches on the clock.
NextRegistry ==
    \/ NextRegistryInit
    \/ NextRegister
    \/ NextPreferences
    \/ NextVerify
    \/ NextUnverify

\* The ledger with the registry calls a payment needs, the clock standing still.
NextLedger ==
    \/ NextRegistryInit
    \/ NextRegister
    \/ NextFacepayInit
    \/ NextPay
    \/ NextPayWithProfile
    \/ NextAddToken
    \/ NextRemoveToken
    \/ NextUpdateFee

\* The payment path alone: the registry calls that make a recipient, the
\* ledger's initialize, the two payment functions and the fee rate they read.
\* The token tables are left out: no payment reads them.
NextPayments ==
    \/ NextRegistryInit
    \/ NextRegister
    \/ NextFacepayInit
    \/ NextPay
    \/ NextPayWithProfile
    \/ NextUpdateFee

\* The payment path from the deployment: registrations, a second ledger, the
\* two payment functions and the fee rate.
NextDeployedPayments ==
    \/ NextRegister
    \/ NextFacepayInit
    \/ NextPay
    \/ NextPayWithProfile
    \/ NextUpdateFee

\* The facade over a ledger: registrations, the fee rate, the facade's calls
\* and the direct payment they wrap.
NextFacade ==
    \/ NextRegister
    \/ NextUpdateFee
    \/ NextEnhancedInit
    \/ NextPayEnhanced
    \/ NextPayEnhancedVerified
    \/ NextPayWithProfile

\* pay_by_face_enhanced next to the direct payment it wraps.
NextFacadeDirect ==
    \/ NextRegister
    \/ NextUpdateFee
    \/ NextEnhancedInit
    \/ NextPayEnhanced
    \/ NextPayWithProfile

\* The conversion entry point over the facade configurations and registrations.
NextFacadeSwap ==
    \/ NextRegister
    \/ NextEnhancedInit
    \/ NextPaySwap

\* What may touch an Identity after the deployment, under a running clock:
\* the registry's calls on it, and a payment to it through the facade and the
\* ledger under it.
NextIdentity ==
    \/ Tick
    \/ NextRegister
    \/ NextPreferences
    \/ NextVerify
    \/ NextPayEnhanced

\* Everything that moves coins, with what it reads: registrations, the fee
\* rate, a direct payment and a payment through the facade.
NextBalances ==
    \/ NextRegister
    \/ NextUpdateFee
    \/ NextPay
    \/ NextPayEnhanced

\* The administration of the ledgers: a second ledger, the token tables and
\* the fee rate.
NextTokens ==
    \/ NextFacepayInit
    \/ NextAddToken
    \/ NextRemoveToken
    \/ NextUpdateFee

\* The facade over configurations of every kind: a second registry,
\* registrations in either, a second configuration, and facade payments.
NextFacadeConfigs ==
    \/ NextRegistryInit
    \/ NextRegister
    \/ NextEnhancedInit
    \/ NextPayEnhanced

\* The registry with a running clock, for the timestamps of the Identities.
NextRegistryClock == Tick \/ NextRegistry

Next == Tick \/ NextRegistry \/ NextLedger \/ NextFacade \/ NextPaySwap

Spec == Init /\ [][Next]_vars
SpecRegistry == Init /\ [][NextRegistry]_vars
SpecRegistryClock == Init /\ [][NextRegistryClock]_vars
SpecLedger == Init /\ [][NextLedger]_vars
SpecPayments == Init /\ [][NextPayments]_vars
SpecDeployedPayments == InitDeployed /\ [][NextDeployedPayments]_vars
SpecFacade == InitDeployed /\ [][NextFacade]_vars
SpecFacadeDirect == InitDeployed /\ [][NextFacadeDirect]_vars
SpecFacadeSwap == InitDeployed /\ [][NextFacadeSwap]_vars
SpecIdentity == InitIdentity /\ [][NextIdentity]_vars
SpecBalances == InitDeployed /\ [][NextBalances]_vars
SpecTokens == InitDeployed /\ [][NextTokens]_vars
SpecFacadeConfigs == InitFacadeConfigs /\ [][NextFacadeConfigs]_vars

----------------------------------------------------------------------------
\* Properties.

PayOps == {"pay_by_face_apt", "pay_by_face_apt_with_profile"}

\* A step is a committed payment by s through ledger sa: s gains its PaymentTx
\* and sa's counter moves.
PaidBy(s, sa) ==
    /\ ~exists_at(payment_tx, s)
    /\ exists_at(payment_tx', s)
    /\ exists_at(payment_counter, sa)
    /\ payment_counter'[sa] # payment_counter[sa]

\* What the claim expects as the fee: floor(amount * r / 10000).
ExpectedFee(amount, r) == (amount * r) \div 10000

\* C1 as stated: after every successful payment of amount at fee rate r, for
\* every choice of sender, recipient and ledger admin, the recipient's balance
\* is up by amount - floor(amount*r/10000), the fee collector's is up by
\* floor(amount*r/10000) and the sender's is down by amount.
C1_Original ==
    [][\A s \in Addr, sa \in Admins :
          PaidBy(s, sa) =>
              LET tx == payment_tx'[s]
                  r == tx.recipient_address
                  amount == tx.original_amount
                  fee == ExpectedFee(amount, system[sa].fee_bps)
              IN /\ balance'[r] = balance[r] + (amount - fee)
                 /\ balance'[sa] = balance[sa] + fee
                 /\ balance'[s] = balance[s] - amount]_vars

\* C1 amended: the three deltas hold when the ledger admin is neither the
\* sender nor the recipient; an admin that is the sender is down by
\* amount - fee, an admin that is the recipient is up by the whole amount, and
\* the third account moves as stated.
C1_Transfers ==
    [][\A s \in Addr, sa \in Admins :
          PaidBy(s, sa) =>
              LET tx == payment_tx'[s]
                  r == tx.recipient_address
                  amount == tx.original_amount
                  fee == ExpectedFee(amount, system[sa].fee_bps)
              IN /\ r # s
                 /\ sa \notin {s, r} =>
                        /\ balance'[r] = balance[r] + (amount - fee)
                        /\ balance'[sa] = balance[sa] + fee
                        /\ balance'[s] = balance[s] - amount
                 /\ sa = s =>
                        /\ balance'[r] = balance[r] + (amount - fee)
                        /\ balance'[s] = balance[s] - (amount - fee)
                 /\ sa = r =>
                        /\ balance'[r] = balance[r] + amount
                        /\ balance'[s] = balance[s] - amount
                 /\ \A o \in Addr \ {s, r, sa} : balance'[o] = balance[o]]_vars

\* A payment with a non-zero fee has just committed through a ledger whose
\* admin is a third account.
C1_Witness ==
    /\ last.op \in PayOps
    /\ last.err = OK
    /\ \E s \in DOMAIN payment_tx, sa \in DOMAIN system :
          /\ payment_tx[s].payment_id = payment_counter[sa].counter
          /\ Len(system[sa].events) > 0
          /\ system[sa].events[Len(system[sa].events)].sender = s
          /\ sa \notin {s, payment_tx[s].recipient_address}
          /\ payment_tx[s].fee_amount > 0
          /\ balance[payment_tx[s].recipient_address]
                 = InitialBalance[payment_tx[s].recipient_address]
                     + payment_tx[s].received_amount

C3_Original ==
    \A L \in DOMAIN system : \A a \in Addr \ {L} :
        /\ \A r \in FeeRates : update_fee_bps_abort(a, r, L) = F_NOT_AUTHORIZED
        /\ \A t \in Tokens :
              /\ add_supported_token_abort(a, t, L) = F_NOT_AUTHORIZED
              /\ remove_supported_token_abort(a, L) = F_NOT_AUTHORIZED

\* C4 as stated: verify_user / unverify_user on an Identity indexed in the
\* registry of R, called by any account other than R, also one that holds the
\* AdminCap of a registry of its own, fails with Unauthorized.
C4_Original ==
    \A R \in DOMAIN registry_config : \A a \in Addr \ {R} :
        \A u \in DOMAIN registry_config[R].address_to_user :
            set_verified_abort(a, u, R) = R_NOT_AUTHORIZED

\* C5 as stated: a sender whose payment through ledger sa has committed, and
\* whose balance still covers the amount, can submit the identical call again
\* and it succeeds.
C5_Original ==
    \A s \in DOMAIN payment_tx, sa \in DOMAIN system :
        (/\ \E i \in 1..Len(system[sa].events) :
                /\ system[sa].events[i].sender = s
                /\ system[sa].events[i].payment_id = payment_tx[s].payment_id
         /\ balance[s] >= payment_tx[s].original_amount)
        => pay_abort(s, payment_tx[s].recipient_face_hash,
                     payment_tx[s].original_amount, sa, FALSE) = OK

\* The Identities indexed in registry R that carry face hash f.
IndexedWithFace(R, f) ==
    {a \in DOMAIN registry_config[R].address_to_user :
        exists_at(user_profile, a) /\ user_profile[a].face_hash = f}

\* C6: in every registry each face hash resolves to at most one account, the
\* account it resolves to carries it, and at most one Identity indexed in the
\* registry carries it.
C6_FaceUniquePerRegistry ==
    \A R \in DOMAIN registry_config, f \in FaceHashes :
        /\ Cardinality(IndexedWithFace(R, f)) <= 1
        /\ get_user_by_face_hash(R, f) # None =>
               IndexedWithFace(R, f) = {get_user_by_face_hash(R, f)}
        /\ get_user_by_face_hash(R, f) = None => IndexedWithFace(R, f) = {}

\* A registry indexes two Identities and has just refused a third registration.
C6_Witness ==
    /\ last.op = "register_user"
    /\ last.err = R_USER_ALREADY_EXISTS
    /\ \E R \in DOMAIN registry_config :
          /\ registry_config[R].user_count = 2
          /\ \E f \in FaceHashes : Cardinality(IndexedWithFace(R, f)) = 1

\* C7 as stated: no two Identities at different accounts carry the same face
\* hash, whatever registries they were registered in.
C7_Original ==
    \A a \in DOMAIN user_profile, b \in DOMAIN user_profile :
        a # b => user_profile[a].face_hash # user_profile[b].face_hash

\* C8 as stated: at most one Identity has owner a, and register_user by an
\* account that owns an Identity fails with DuplicateOwner, the abort of the
\* address_to_user assert, whichever initialized registry the call names.
C8_Original ==
    /\ \A a \in Addr :
          Cardinality({x \in DOMAIN user_profile : user_profile[x].aptos_address = a}) <= 1
    /\ \A a \in DOMAIN user_profile, R \in DOMAIN registry_config :
          \A f \in FaceHashes \ {""} :
              register_user_abort(a, f, R) = R_USER_ALREADY_EXISTS

\* C9: a step that registers an Identity leaves its face hash resolving to the
\* registering account in the registry that indexed it, and no step removes or
\* rebinds a face hash that resolves.
C9_LookupStable ==
    [][/\ \A a \in Addr :
             (~exists_at(user_profile, a) /\ exists_at(user_profile', a)) =>
                 \E R \in DOMAIN registry_config, f \in FaceHashes :
                     /\ user_profile'[a].face_hash = f
                     /\ registry_config'[R].user_count = registry_config[R].user_count + 1
                     /\ get_user_by_face_hash(R, f) = None
                     /\ get_user_by_face_hash(R, f)' = a
       /\ \A R \in Admins, f \in FaceHashes :
             get_user_by_face_hash(R, f) # None =>
                 get_user_by_face_hash(R, f)' = get_user_by_face_hash(R, f)]_vars

\* A face hash registered two transactions ago still resolves to its account.
C9_Witness ==
    /\ tx_count = MaxTx
    /\ \E R \in DOMAIN registry_config, f \in FaceHashes :
          /\ get_user_by_face_hash(R, f) # None
          /\ registry_config[R].user_verification_updated_events
               + registry_config[R].user_preferences_updated_events = 2
          /\ user_profile[get_user_by_face_hash(R, f)].face_hash = f

\* C10 as stated: on an initialized ledger a payment whose amount is below the
\* minimum configured for the native asset, the value get_min_payment_amount
\* returns, fails with BelowMinimum.
C10_Original ==
    \A sa \in DOMAIN system, s \in Addr, f \in FaceHashes, amount \in Amounts :
        amount < get_min_payment_amount(sa, APT) =>
            /\ pay_abort(s, f, amount, sa, FALSE) = F_INVALID_AMOUNT
            /\ pay_abort(s, f, amount, sa, TRUE) = F_INVALID_AMOUNT

C12_FeeRateCapped ==
    /\ [](/\ \A sa \in DOMAIN system :
                /\ system[sa].fee_bps \in 0..1000
                /\ \A r \in FeeRates :
                      r > 1000 => update_fee_bps_abort(sa, r, sa) = F_INVALID_AMOUNT
                /\ \A amount \in Amounts :
                      /\ fee_of(amount, system[sa].fee_bps) <= amount
                      /\ amount - fee_of(amount, system[sa].fee_bps) >= 0
          /\ \A s \in DOMAIN payment_tx :
                /\ payment_tx[s].fee_amount <= payment_tx[s].original_amount
                /\ payment_tx[s].received_amount
                       = payment_tx[s].original_amount - payment_tx[s].fee_amount
                /\ payment_tx[s].received_amount >= 0)
    /\ [][/\ \A sa \in Admins :
                (~exists_at(system, sa) /\ exists_at(system', sa)) =>
                    system'[sa].fee_bps = 30
          /\ (last'.op = "update_fee_bps" /\ last'.err # OK) => system' = system]_vars

\* A rate above the cap has just been refused on a ledger that runs at the cap
\* and has taken a tenth of a payment as its fee.
C12_Witness ==
    /\ last.op = "update_fee_bps"
    /\ last.err = F_INVALID_AMOUNT
    /\ \E sa \in DOMAIN system : system[sa].fee_bps = 1000
    /\ \E s \in DOMAIN payment_tx :
          payment_tx[s].fee_amount * 10 = payment_tx[s].original_amount

\* C13: every receipt has swap_required = FALSE and original_amount =
\* received_amount + fee_amount, and the receipt a payment writes has
\* fee_amount = floor(original_amount * b / 10000) for b the fee rate of the
\* ledger it went through at that moment, whether b is the initial rate or one
\* the admin has set; at b = 30 an amount of 1000000 gives fee 3000 and net
\* 997000.
C13_ReceiptAmounts ==
    [][/\ \A s \in DOMAIN payment_tx :
             /\ payment_tx[s].swap_required = FALSE
             /\ payment_tx[s].original_amount
                    = payment_tx[s].received_amount + payment_tx[s].fee_amount
       /\ \A s \in Addr, sa \in Admins :
             PaidBy(s, sa) =>
                 LET tx == payment_tx'[s]
                     b == system[sa].fee_bps
                 IN /\ tx.swap_required = FALSE
                    /\ tx.fee_amount = ExpectedFee(tx.original_amount, b)
                    /\ tx.original_amount = tx.received_amount + tx.fee_amount
                    /\ (b = 30 /\ tx.original_amount = 1000000) =>
                           (tx.fee_amount = 3000 /\ tx.received_amount = 997000)]_vars

\* A payment of 1000333 has just committed through a ledger whose admin had
\* raised the rate to 1000: the fee is 100033, rounded down, the net 900300.
C13_Witness ==
    /\ last.op \in PayOps
    /\ last.err = OK
    /\ \E s \in DOMAIN payment_tx, sa \in DOMAIN system :
          /\ system[sa].fee_bps = 1000
          /\ payment_tx[s].payment_id = payment_counter[sa].counter
          /\ payment_tx[s].original_amount = 1000333
          /\ payment_tx[s].fee_amount = 100033
          /\ payment_tx[s].received_amount = 900300

\* The PaymentInitiated events of an event stream, and the sum of their amounts.
Initiated(ev) == SelectSeq(ev, LAMBDA e : e.type = "PaymentInitiated")
Completed(ev) == SelectSeq(ev, LAMBDA e : e.type = "PaymentCompleted")
RECURSIVE SumOfAmounts(_)
SumOfAmounts(ev) ==
    IF ev = << >> THEN 0 ELSE Head(ev).original_amount + SumOfAmounts(Tail(ev))

\* C14: a committed payment through a ledger adds 1 to its total_payments and
\* the amount to its total_volume and leaves the totals of every other ledger,
\* and no other step changes the totals of a ledger; in every state a ledger's
\* total_payments equals its payment counter and the number of payments it
\* has completed, and its total_volume is the sum of their amounts.
C14_TotalsCountPayments ==
    /\ [](\A sa \in DOMAIN system :
             /\ exists_at(payment_counter, sa)
             /\ system[sa].total_payments = payment_counter[sa].counter
             /\ system[sa].total_payments = Len(Completed(system[sa].events))
             /\ system[sa].total_payments = Len(Initiated(system[sa].events))
             /\ system[sa].total_volume = SumOfAmounts(Initiated(system[sa].events)))
    /\ [][/\ \A sa \in DOMAIN system :
                IF \E s \in Addr : PaidBy(s, sa)
                THEN \E s \in Addr :
                        /\ PaidBy(s, sa)
                        /\ last'.op \in PayOps /\ last'.err = OK
                        /\ system'[sa].total_payments = system[sa].total_payments + 1
                        /\ system'[sa].total_volume
                               = system[sa].total_volume + payment_tx'[s].original_amount
                ELSE /\ system'[sa].total_payments = system[sa].total_payments
                     /\ system'[sa].total_volume = system[sa].total_volume
          /\ (last'.op \in PayOps /\ last'.err = OK) =>
                \E sa \in DOMAIN system, s \in Addr : PaidBy(s, sa)]_vars

\* Two senders have paid through one ledger, 1000333 and 1000000.
C14_Witness ==
    \E sa \in DOMAIN system :
        /\ system[sa].total_payments = 2
        /\ system[sa].total_volume = 2000333
        /\ Cardinality(DOMAIN payment_tx) = 2

\* C15: the k-th payment a ledger completes carries payment_id k; a committed
\* payment gets the id one above the counter, which is above every id the
\* ledger has assigned, and leaves the counter at that id; a call that fails
\* and a step that is not a payment leave every counter as it was.
C15_PaymentIdsInOrder ==
    /\ [](\A sa \in DOMAIN system :
             LET ini == Initiated(system[sa].events) IN
             /\ Len(ini) = payment_counter[sa].counter
             /\ \A k \in 1..Len(ini) : ini[k].payment_id = k)
    /\ [][/\ \A sa \in DOMAIN system, s \in Addr :
                PaidBy(s, sa) =>
                    /\ payment_tx'[s].payment_id = payment_counter[sa].counter + 1
                    /\ payment_counter'[sa].counter = payment_tx'[s].payment_id
                    /\ \A k \in 1..Len(system[sa].events) :
                          system[sa].events[k].payment_id < payment_tx'[s].payment_id
                    /\ \A o \in DOMAIN payment_counter \ {sa} :
                          payment_counter'[o] = payment_counter[o]
          /\ ~(last'.op \in PayOps /\ last'.err = OK) =>
                \A sa \in DOMAIN payment_counter : payment_counter'[sa] = payment_counter[sa]]_vars

\* A ledger has assigned ids 1 and 2 to two senders, and the call after them
\* has failed.
C15_Witness ==
    /\ last.op \in PayOps
    /\ last.err # OK
    /\ \E sa \in DOMAIN system, s1 \in DOMAIN payment_tx, s2 \in DOMAIN payment_tx :
          /\ payment_counter[sa].counter = 2
          /\ payment_tx[s1].payment_id = 1
          /\ payment_tx[s2].payment_id = 2
          /\ Len(system[sa].events) = 4

\* PaymentTx.status: 0 = pending, 1 = completed, 2 = failed.
StatusCompleted == 1

\* C16: a payment call by s with face hash f and amount that commits adds
\* exactly one receipt, at s, with sender s, recipient_face_hash f, the
\* recipient_address f resolved to, original_amount amount and status
\* completed; no other step adds a receipt; every receipt has status completed;
\* and no step changes or removes a receipt.
C16_OneReceiptPerPayment ==
    [][/\ \A s \in DOMAIN payment_tx :
             /\ payment_tx[s].status = StatusCompleted
             /\ exists_at(payment_tx', s)
             /\ payment_tx'[s] = payment_tx[s]
       /\ ~(last'.op \in PayOps /\ last'.err = OK) => DOMAIN payment_tx' = DOMAIN payment_tx
       /\ (last'.op \in PayOps /\ last'.err = OK) =>
             /\ Cardinality(DOMAIN payment_tx' \ DOMAIN payment_tx) = 1
             /\ \A s \in Addr, f \in FaceHashes, amount \in Amounts, sa \in Admins :
                   (\/ pay_by_face_apt(s, f, amount, sa)
                    \/ pay_by_face_apt_with_profile(s, f, amount, sa)) =>
                       /\ DOMAIN payment_tx' \ DOMAIN payment_tx = {s}
                       /\ payment_tx'[s].sender = s
                       /\ payment_tx'[s].recipient_face_hash = f
                       /\ payment_tx'[s].recipient_address = pay_recipient(f, sa)
                       /\ payment_tx'[s].original_amount = amount
                       /\ payment_tx'[s].status = StatusCompleted]_vars

\* A second payment has just committed and the receipt of the first is still
\* there, both completed.
C16_Witness ==
    /\ last.op \in PayOps
    /\ last.err = OK
    /\ Cardinality(DOMAIN payment_tx) = 2
    /\ \A s \in DOMAIN payment_tx :
          /\ payment_tx[s].sender = s
          /\ payment_tx[s].status = StatusCompleted
          /\ payment_tx[s].recipient_address \in DOMAIN user_profile

InitOps == {"registry_initialize", "facepay_initialize"}

\* C17: initialize of the registry, or of the ledger, signed by an account
\* that has initialized it before, fails with the already_exists abort of
\* initialize's guard; a failed initialize changes no resource; and no
\* initialize, failed or not, changes a registry or a ledger that exists: its
\* tables, user_count, fee_bps, supported tokens, totals and counter stay.
C17_SecondInitializeRefused ==
    /\ [](/\ \A a \in DOMAIN registry_config :
                registry_initialize_abort(a) = R_USER_ALREADY_EXISTS
          /\ \A a \in DOMAIN system :
                facepay_initialize_abort(a) = F_ALREADY_INITIALIZED)
    /\ [][/\ (last'.op \in InitOps /\ last'.err # OK) => UNCHANGED chain
          /\ last'.op \in InitOps =>
                /\ \A a \in DOMAIN registry_config :
                      /\ exists_at(registry_config', a)
                      /\ registry_config'[a] = registry_config[a]
                /\ \A a \in DOMAIN system :
                      /\ exists_at(system', a)
                      /\ system'[a] = system[a]
                      /\ payment_counter'[a] = payment_counter[a]]_vars

\* The admin of a ledger that has processed a payment, bound to a registry
\* that indexes an Identity, has just called initialize again and was refused.
C17_Witness ==
    /\ last.op = "facepay_initialize"
    /\ last.err = F_ALREADY_INITIALIZED
    /\ \E sa \in DOMAIN system :
          /\ system[sa].total_payments = 1
          /\ system[sa].total_volume > 0
          /\ payment_counter[sa].counter = 1
          /\ get_registry_stats(system[sa].registry_admin) = 1

\* C18 as stated: no read-only accessor fails, whatever address, face hash or
\* token it is asked about: the registry's and the ledger's return None, FALSE,
\* the default minimum or zero totals for what does not exist, and so do the
\* facade's get_admin_addresses, get_payment_statistics and
\* get_registry_statistics for an address without a configuration.
C18_Original ==
    \A a \in Addr :
        /\ \A f \in FaceHashes :
              /\ get_user_by_face_hash(a, f) \in Addr \cup {None}
              /\ user_exists_by_face(a, f) \in BOOLEAN
              /\ ~exists_at(registry_config, a) =>
                     (get_user_by_face_hash(a, f) = None /\ ~user_exists_by_face(a, f))
        /\ \A u \in Addr :
              /\ user_exists_by_address(a, u) \in BOOLEAN
              /\ ~exists_at(registry_config, a) => ~user_exists_by_address(a, u)
        /\ \A t \in Tokens :
              /\ is_token_supported(a, t) \in BOOLEAN
              /\ get_min_payment_amount(a, t) \in Nat
              /\ ~exists_at(system, a) =>
                     (~is_token_supported(a, t) /\ get_min_payment_amount(a, t) = 1000000)
        /\ ~exists_at(system, a) => get_system_stats(a) = <<0, 0, 0>>
        /\ ~exists_at(payment_counter, a) => get_payment_counter(a) = 0
        /\ enhanced_accessor_abort(a) = OK

EnhancedOps == {"pay_by_face_enhanced", "pay_by_face_enhanced_with_verification"}

\* C19 as stated: the fee_amount of every FacePaymentCompleted event of a
\* facade equals the fee_amount the ledger computed for that payment: the one
\* in the sender's receipt and the one in the ledger's PaymentCompleted event
\* with the same payment_id.
C19_Original ==
    \A ea \in DOMAIN enhanced_config :
        LET config == enhanced_config[ea]
            done == config.face_payment_completed_events
            ev == IF exists_at(system, config.system_admin)
                  THEN Completed(system[config.system_admin].events) ELSE << >>
        IN \A k \in 1..Len(done) :
              /\ exists_at(payment_tx, done[k].sender)
              /\ payment_tx[done[k].sender].payment_id = done[k].payment_id
              /\ payment_tx[done[k].sender].fee_amount = done[k].fee_amount
              /\ \A j \in 1..Len(ev) :
                    ev[j].payment_id = done[k].payment_id =>
                        ev[j].fee_amount = done[k].fee_amount

\* The facade configuration at ea names an initialized ledger and the registry
\* that ledger is bound to.
ConfigMatchesLedger(ea) ==
    /\ exists_at(enhanced_config, ea)
    /\ exists_at(system, enhanced_config[ea].system_admin)
    /\ enhanced_config[ea].registry_admin
           = system[enhanced_config[ea].system_admin].registry_admin

\* C20: through a facade configuration that names ledger L and the registry L
\* is bound to, pay_by_face_enhanced(s, f, amount) ends without abort exactly
\* when pay_by_face_apt_with_profile(s, f, amount, L) does; and a
\* pay_by_face_enhanced step that commits writes the balances, the ledger's
\* totals, events and counter and the receipt that the direct call writes, and
\* beyond them only the facade's own events.
C20_FacadeMatchesDirectCall ==
    /\ [](\A ea \in Admins :
             ConfigMatchesLedger(ea) =>
                 \A s \in Addr, f \in FaceHashes, amount \in Amounts :
                     (enhanced_pay_abort(s, f, amount, ea, FALSE) = OK)
                         <=> (pay_abort(s, f, amount, enhanced_config[ea].system_admin, TRUE) = OK))
    /\ [][(last'.op = "pay_by_face_enhanced" /\ last'.err = OK) =>
             \A ea \in Admins, s \in Addr, f \in FaceHashes, amount \in Amounts :
                 (ConfigMatchesLedger(ea) /\ pay_by_face_enhanced(s, f, amount, ea)) =>
                     /\ pay_commit(s, f, amount, enhanced_config[ea].system_admin, TRUE)
                     /\ UNCHANGED <<registry_config, registry_admin_cap, user_profile,
                                    admin_cap>>]_vars

\* A facade payment has just committed for a sender whose balance was exactly
\* the amount.
C20_Witness ==
    /\ last.op = "pay_by_face_enhanced"
    /\ last.err = OK
    /\ \E ea \in DOMAIN enhanced_config :
          /\ ConfigMatchesLedger(ea)
          /\ Len(enhanced_config[ea].face_payment_completed_events) > 0
          /\ LET e == enhanced_config[ea].face_payment_completed_events[
                           Len(enhanced_config[ea].face_payment_completed_events)]
             IN /\ InitialBalance[e.sender] = e.amount_paid
                /\ balance[e.sender] = 0
                /\ payment_tx[e.sender].payment_id = e.payment_id

PaymentsReceived(a) ==
    LET n[S \in SUBSET DOMAIN system] ==
            IF S = {} THEN 0
            ELSE LET sa == CHOOSE x \in S : TRUE
                 IN Len(SelectSeq(Completed(system[sa].events),
                                  LAMBDA e : e.recipient_address = a)) + n[S \ {sa}]
    IN n[DOMAIN system]

\* C22 as stated: the payment_count of every Identity equals the number of
\* committed payments whose resolved recipient is its owner.
C22_Original ==
    \A a \in DOMAIN user_profile : user_profile[a].payment_count = PaymentsReceived(a)

BelowMinimum(amount) == amount < MIN_PAYMENT_AMOUNT
RecipientNotFound(f, sa, with_profile) ==
    \/ pay_recipient(f, sa) = None
    \/ with_profile /\ ~exists_at(user_profile, pay_recipient(f, sa))
SelfPayment(s, f, sa) == pay_recipient(f, sa) = s
InsufficientFunds(s, amount) == balance[s] < amount

OnlyIdentityWritten(a) ==
    /\ DOMAIN user_profile' = DOMAIN user_profile
    /\ \A o \in DOMAIN user_profile \ {a} : user_profile'[o] = user_profile[o]
    /\ user_profile'[a].is_verified = user_profile[a].is_verified
    /\ user_profile'[a].payment_count = user_profile[a].payment_count
    /\ DOMAIN registry_config' = DOMAIN registry_config
    /\ \A R \in DOMAIN registry_config :
          /\ registry_config'[R].face_to_user = registry_config[R].face_to_user
          /\ registry_config'[R].address_to_user = registry_config[R].address_to_user
          /\ registry_config'[R].user_count = registry_config[R].user_count
    /\ UNCHANGED <<registry_admin_cap, system, admin_cap, payment_counter, payment_tx,
                   balance, enhanced_config, now>>

\* C25: no step changes the aptos_address, face_hash, storage_blob_id or
\* created_at of an Identity, or removes it; a step that changes its
\* preferred_token or display_name is a committed update_preferences signed by
\* its owner; every committed update_preferences writes the preferences and
\* updated_at of the signer's Identity and, beyond the PreferencesUpdated event,
\* nothing else; update_preferences by an account without an Identity ends
\* with not_found(E_USER_NOT_FOUND), and a failed one changes nothing.
C25_IdentityFrame ==
    /\ [](\A u \in Addr \ DOMAIN user_profile, ra \in Admins :
             update_preferences_abort(u, ra) = R_USER_NOT_FOUND)
    /\ [][/\ \A a \in DOMAIN user_profile :
                /\ exists_at(user_profile', a)
                /\ user_profile'[a].aptos_address = user_profile[a].aptos_address
                /\ user_profile'[a].face_hash = user_profile[a].face_hash
                /\ user_profile'[a].storage_blob_id = user_profile[a].storage_blob_id
                /\ user_profile'[a].created_at = user_profile[a].created_at
                /\ (\/ user_profile'[a].preferred_token # user_profile[a].preferred_token
                    \/ user_profile'[a].display_name # user_profile[a].display_name) =>
                       /\ last' = Call("update_preferences", OK)
                       /\ \E t \in NewTokens, n \in NewNames, ra \in Admins :
                             update_preferences(a, t, n, ra)
          /\ (last' = Call("update_preferences", OK) /\ tx_count' # tx_count) =>
                \E a \in DOMAIN user_profile, t \in NewTokens, n \in NewNames, ra \in Admins :
                    /\ update_preferences(a, t, n, ra)
                    /\ user_profile'[a].preferred_token = t
                    /\ user_profile'[a].display_name = n
                    /\ user_profile'[a].updated_at = now
                    /\ OnlyIdentityWritten(a)
          /\ (last'.op = "update_preferences" /\ last'.err # OK) =>
                UNCHANGED <<chain, tx_count>>]_vars

\* An owner has just changed the preferences of its Identity, after the clock
\* has moved on from its registration, and an account without an Identity is
\* there to be refused.
C25_Witness ==
    /\ last = Call("update_preferences", OK)
    /\ DOMAIN user_profile # Addr
    /\ \E a \in DOMAIN user_profile :
          /\ user_profile[a].preferred_token \in NewTokens
          /\ user_profile[a].display_name \in NewNames
          /\ user_profile[a].updated_at > user_profile[a].created_at
          /\ user_profile[a].aptos_address = a

\* C26: transactions run one after the other, so two concurrent register_user
\* calls are two steps in one of two orders.  While two accounts without an
\* Identity face a registry that does not index a non-empty face hash, either
\* may register it; the step in which one does adds 1 to user_count and leaves
\* the face hash resolving to that account, and from the state it leaves the
\* call of every other account without an Identity, with that face hash to
\* that registry, ends with already_exists(E_USER_ALREADY_EXISTS); and a
\* register_user that fails changes nothing, so the count stays up by 1 and
\* the face hash stays with the first caller.
C26_FirstRegistrationWins ==
    /\ [](\A R \in DOMAIN registry_config, f \in FaceHashes \ {""} :
             /\ get_user_by_face_hash(R, f) = None =>
                    \A a \in Addr \ DOMAIN user_profile :
                        register_user_abort(a, f, R) = OK
             /\ get_user_by_face_hash(R, f) # None =>
                    \A b \in Addr \ DOMAIN user_profile :
                        register_user_abort(b, f, R) = R_USER_ALREADY_EXISTS)
    /\ [][/\ (last' = Call("register_user", OK) /\ tx_count' # tx_count) =>
                \A a \in Addr, f \in FaceHashes, R \in Admins :
                    register_user(a, f, "blob", APT, "n1", R) =>
                        /\ registry_config'[R].user_count = registry_config[R].user_count + 1
                        /\ get_user_by_face_hash(R, f)' = a
                        /\ \A b \in Addr \ (DOMAIN user_profile \cup {a}) :
                              register_user_abort(b, f, R)' = R_USER_ALREADY_EXISTS
          /\ (last'.op = "register_user" /\ last'.err # OK) => UNCHANGED <<chain, tx_count>>]_vars

\* The second of two registrations has just been refused as a duplicate: the
\* registry indexes one Identity, its face hash resolves to its owner, and an
\* account without an Identity that submits it is refused.
C26_Witness ==
    /\ last = Call("register_user", R_USER_ALREADY_EXISTS)
    /\ \E R \in DOMAIN registry_config, f \in FaceHashes \ {""} :
          /\ registry_config[R].user_count = 1
          /\ get_user_by_face_hash(R, f) \in DOMAIN user_profile
          /\ DOMAIN registry_config[R].address_to_user = {get_user_by_face_hash(R, f)}
          /\ \E b \in Addr \ DOMAIN user_profile :
                register_user_abort(b, f, R) = R_USER_ALREADY_EXISTS

\* C27: in every registry, every entry f -> a of face_to_user has a in
\* address_to_user and a UserProfile at a with face_hash f and aptos_address a;
\* no two face hashes map to one account; every account of address_to_user is
\* the target of a face hash; user_count is the number of entries of either
\* table; so a face hash that resolves, resolves to a holder of a UserProfile.
C27_IndexAgreement ==
    \A R \in DOMAIN registry_config :
        LET c == registry_config[R] IN
        /\ \A f \in DOMAIN c.face_to_user :
              LET a == c.face_to_user[f] IN
              /\ a \in DOMAIN c.address_to_user
              /\ exists_at(user_profile, a)
              /\ user_profile[a].face_hash = f
              /\ user_profile[a].aptos_address = a
        /\ \A f \in DOMAIN c.face_to_user, g \in DOMAIN c.face_to_user :
              c.face_to_user[f] = c.face_to_user[g] => f = g
        /\ \A a \in DOMAIN c.address_to_user :
              \E f \in DOMAIN c.face_to_user : c.face_to_user[f] = a
        /\ c.user_count = Cardinality(DOMAIN c.face_to_user)
        /\ c.user_count = Cardinality(DOMAIN c.address_to_user)
        /\ \A f \in FaceHashes :
              get_user_by_face_hash(R, f) # None =>
                  user_profile_exists(get_user_by_face_hash(R, f))

\* A registry has just indexed its second Identity, next to a registry that
\* indexes none.
C27_Witness ==
    /\ last = Call("register_user", OK)
    /\ \E R \in DOMAIN registry_config, Q \in DOMAIN registry_config :
          /\ R # Q
          /\ Cardinality(DOMAIN registry_config[R].face_to_user) = 2
          /\ registry_config[R].user_count = 2
          /\ registry_config[Q].user_count = 0

\* The sum of the balances b over the accounts.
TotalBalance(b) ==
    LET sum[S \in SUBSET Addr] ==
            IF S = {} THEN 0
            ELSE LET a == CHOOSE x \in S : TRUE IN b[a] + sum[S \ {a}]
    IN sum[Addr]

\* C28: the balances sum to what the accounts were funded with, and none is
\* negative, in every state; a payment that commits, directly or through the
\* facade, withdraws the amount of its receipt from the sender and deposits
\* the receipt's fee_amount to the ledger's admin and its received_amount to
\* the recipient, the two adding up to the amount; and every other step, a
\* failed payment included, leaves every balance as it was.
C28_BalancesConserved ==
    /\ [](/\ TotalBalance(balance) = TotalBalance(InitialBalance)
          /\ \A a \in Addr : balance[a] >= 0)
    /\ [][/\ \A s \in Addr, sa \in Admins :
                PaidBy(s, sa) =>
                    LET tx == payment_tx'[s] IN
                    /\ tx.fee_amount + tx.received_amount = tx.original_amount
                    /\ tx.fee_amount >= 0
                    /\ tx.received_amount >= 0
                    /\ balance[s] >= tx.original_amount
                    /\ balance' = coin_deposit(
                                      coin_deposit(
                                          coin_withdraw(balance, s, tx.original_amount),
                                          sa, tx.fee_amount),
                                      tx.recipient_address, tx.received_amount)
          /\ (\A s \in Addr, sa \in Admins : ~PaidBy(s, sa)) => balance' = balance
          /\ (last'.op \in PayOps \cup EnhancedOps /\ last'.err # OK) =>
                balance' = balance]_vars

\* Two payments have moved funds, one of them of an amount whose fee is
\* rounded down, and the balances still sum to the funding.
C28_Witness ==
    /\ Cardinality(DOMAIN payment_tx) = 2
    /\ \E s \in DOMAIN payment_tx :
          payment_tx[s].fee_amount * BPS_DENOMINATOR
              < payment_tx[s].original_amount * DEFAULT_FEE_BPS
    /\ \E a \in Addr : balance[a] > InitialBalance[a]
    /\ \E a \in Addr : balance[a] < InitialBalance[a]
    /\ TotalBalance(balance) = TotalBalance(InitialBalance)

TokenOps == {"add_supported_token", "remove_supported_token"}

\* C29: in every ledger supported_tokens and min_amounts have the same keys,
\* and is_token_supported(t) says whether t is one of them; a ledger starts
\* with APT alone; add_supported_token for a supported token fails, for every
\* signer, and a failed call leaves the ledger, the token's minimum included,
\* as it was; a committed add_supported_token adds its token with its minimum,
\* a committed remove_supported_token removes its token from both tables, and
\* for a token that is not supported it commits and leaves the ledger as it
\* was; no other step changes the tables.
C29_TokenTables ==
    /\ [](\A sa \in DOMAIN system :
             /\ DOMAIN system[sa].supported_tokens = DOMAIN system[sa].min_amounts
             /\ \A t \in Tokens :
                   /\ is_token_supported(sa, t) <=> t \in DOMAIN system[sa].supported_tokens
                   /\ is_token_supported(sa, t) =>
                          \A admin \in Addr : add_supported_token_abort(admin, t, sa) # OK
                   /\ is_token_supported(sa, t) =>
                          \A admin \in DOMAIN admin_cap :
                              add_supported_token_abort(admin, t, sa) = TABLE_ALREADY_EXIST
                   /\ ~is_token_supported(sa, t) =>
                          \A admin \in DOMAIN admin_cap :
                              remove_supported_token_abort(admin, sa) = OK)
    /\ [][/\ \A sa \in Admins :
                (~exists_at(system, sa) /\ exists_at(system', sa)) =>
                    DOMAIN system'[sa].supported_tokens = {APT}
          /\ (last'.op \in TokenOps /\ last'.err # OK) => system' = system
          /\ ~(last'.op \in TokenOps /\ last'.err = OK) =>
                \A sa \in DOMAIN system :
                    /\ system'[sa].supported_tokens = system[sa].supported_tokens
                    /\ system'[sa].min_amounts = system[sa].min_amounts
          /\ (last' = Call("add_supported_token", OK)) =>
                \A admin \in Addr, t \in Tokens, m \in MinAmounts, sa \in Admins :
                    add_supported_token(admin, t, m, sa) =>
                        /\ ~is_token_supported(sa, t)
                        /\ is_token_supported(sa, t)'
                        /\ system'[sa].min_amounts[t] = m
                        /\ \A o \in Tokens \ {t} :
                              is_token_supported(sa, o)' = is_token_supported(sa, o)
          /\ (last' = Call("remove_supported_token", OK)) =>
                \A admin \in Addr, t \in Tokens, sa \in Admins :
                    remove_supported_token(admin, t, sa) =>
                        /\ ~is_token_supported(sa, t)'
                        /\ ~is_token_supported(sa, t) => system' = system
                        /\ \A o \in Tokens \ {t} :
                              is_token_supported(sa, o)' = is_token_supported(sa, o)]_vars

\* The deployed ledger has seen three committed token calls and nothing else:
\* "0xB" added, APT removed, and a removal of a token that was not supported,
\* the last call being a removal.
C29_Witness ==
    /\ last = Call("remove_supported_token", OK)
    /\ tx_count = MaxTx - MaxDeployedTx + 3
    /\ DOMAIN system = {DeployAdmin}
    /\ system[DeployAdmin].fee_bps = DEFAULT_FEE_BPS
    /\ DOMAIN system[DeployAdmin].supported_tokens = Tokens \ {APT}
    /\ DOMAIN system[DeployAdmin].min_amounts = Tokens \ {APT}

\* C30 as stated: for every facade configuration, matching its ledger's
\* registry or not, the k-th FacePaymentCompleted event and the k-th
\* FaceVerificationSuccess event carry the recipient_address the receipt of
\* that payment names as credited, the completion event carries the receipt's
\* payment_id, and there is no verification event without its payment.
C30_Original ==
    \A ea \in DOMAIN enhanced_config :
        LET done == enhanced_config[ea].face_payment_completed_events
            ver == enhanced_config[ea].face_verification_success_events
        IN /\ Len(ver) = Len(done)
           /\ \A k \in 1..Len(done) :
                 /\ exists_at(payment_tx, done[k].sender)
                 /\ payment_tx[done[k].sender].payment_id = done[k].payment_id
                 /\ payment_tx[done[k].sender].recipient_address = done[k].recipient_address
                 /\ payment_tx[done[k].sender].recipient_address = ver[k].recipient_address
====
